---- MODULE Spec2Model ----
(***************************************************************************)
(* Model of the federated query engine of src/mainEngine.py:               *)
(*   - run_routine_query : the fan-out of one routine query over its       *)
(*     target endpoints, one loop iteration per step;                      *)
(*   - execute_sparql    : one SPARQL call, exceptions turned into         *)
(*     {"error": reason};                                                  *)
(*   - merge_count_results : the reduction of a fan-out map to a table of  *)
(*     summed counts.                                                      *)
(* of the health check of src/endpoint_health_check.py and of the service  *)
(* of src/api.py (login, user administration, /run_query).                 *)
(* Spec is the fan-out and FairSpec the fan-out that keeps stepping;       *)
(* MergeSpec builds a fan-out map entry by entry and merges it, RepeatSpec *)
(* merges one map more than once; HealthSpec is health_check, LoadSpec     *)
(* load_endpoints and EngineSpec run_routine_query with its loading;       *)
(* AuthSpec is the user service and ApiSpec /run_query from request to     *)
(* response.                                                               *)
(* Python values: None is the string None below, a dict is a TLA+ function *)
(* over its keys, a list is a sequence.  A message built by string         *)
(* formatting is the sequence of its parts.                                *)
(***************************************************************************)
EXTENDS Integers, Sequences, FiniteSets, TLC

\* ------------------------------------------------------------------ bounds
\* longest endpoint subset a caller passes to run_routine_query
MaxTargets == 3
\* most endpoint entries of a fan-out map given to merge_count_results
MaxMergeEndpoints == 2
\* most binding rows of a fan-out map, all entries together
MaxRows == 3
\* the calls of merge_count_results on one map
MaxMergeCalls == 2

\* ------------------------------------------------------- Python primitives
None == "<None>"

\* the value True where a string is expected
PyTrue == "<True>"

\* isinstance(s, str)
IsStr(s) == s \notin {None, PyTrue}

\* bool(s) of an optional string: None and "" are falsy
Truthy(s) == s # None /\ s # ""

\* d.get(k, default)
Get(d, k, default) == IF k \in DOMAIN d THEN d[k] ELSE default

\* all sequences over S of length 0..n
SeqsUpTo(S, n) == UNION { [1..k -> S] : k \in 0..n }

\* the set of elements of a sequence
Range(s) == { s[i] : i \in DOMAIN s }

\* the empty dict
EmptyDict == [k \in {} |-> None]

\* ------------------------------------------------------------- registries
\* query_config.json as returned by load_queries: query id -> descriptor.
\* by_gender declares no allowed_endpoints; the file of by_type is unreadable.
Queries ==
  [ by_country |-> [query_file |-> "by_country.rq",
                    allowed_endpoints |-> <<"A", "Z", "B">>],
    by_gender  |-> [query_file |-> "by_gender.rq"],
    by_type    |-> [query_file |-> "by_type.rq",
                    allowed_endpoints |-> <<"A">>] ]

\* the query files that open() can read, with their text
QueryFiles ==
  [ f \in {"by_country.rq", "by_gender.rq"} |-> "SELECT ?country (COUNT(*) AS ?count)" ]

\* the "platforms" of endpoints_config.json as returned by load_endpoints:
\*   A  no authentication (auth_method left out)
\*   B  basic, username and password both by environment reference
\*   C  basic, static username, no password reference
\*   D  basic, username by environment reference, no password reference
\*   E  basic, static username, password by environment reference
\*   F  basic, the username reference is the JSON value true, not a name;
\*      only requests to /run_query name F
\* A and D carry a "status" of their own in the file
Endpoints ==
  [ A |-> [endpoint_url |-> "http://a/sparql", status |-> "offline"],
    B |-> [endpoint_url |-> "http://b/sparql", auth_method |-> "basic",
           username_env |-> "SPARQL_USER", password_env |-> "SPARQL_PASS"],
    C |-> [endpoint_url |-> "http://c/sparql", auth_method |-> "basic",
           username |-> "carol"],
    D |-> [endpoint_url |-> "http://d/sparql", auth_method |-> "basic",
           username_env |-> "SPARQL_USER", status |-> "degraded"],
    E |-> [endpoint_url |-> "http://e/sparql", auth_method |-> "basic",
           username |-> "erin", password_env |-> "SPARQL_PASS"],
    F |-> [endpoint_url |-> "http://f/sparql", auth_method |-> "basic",
           username_env |-> PyTrue, password_env |-> "SPARQL_PASS"] ]

\* endpoint ids a caller of run_routine_query may name; Z is in no registry
EndpointIds == {"A", "B", "C", "D", "E", "Z"}

\* query ids a caller may name; does_not_exist is in no registry
QueryIds == DOMAIN Queries \cup {"does_not_exist"}

\* the environment variables the registry refers to, and the values one may
\* hold: unset (None), set to the empty string, set to a value
EnvNames == {"SPARQL_USER", "SPARQL_PASS"}
EnvValues == {None, "", "s3cret"}

\* what sparql.query().convert() does for one call: it returns the parsed
\* JSON answer, or raises while building the request, while sending it
\* (transport, HTTP 401, HTTP 500) or while converting the answer
Payload(n) ==
  [results |-> [bindings |-> <<[country |-> [value |-> "NL"],
                                count |-> [value |-> n]]>>]]
NoValue == [is_none |-> TRUE]
NetOutcomes ==
  { [raises |-> FALSE, value |-> Payload("3"), exc |-> None],
    [raises |-> FALSE, value |-> Payload("2"), exc |-> None],
    [raises |-> TRUE, value |-> NoValue, exc |-> "URLError: timed out"],
    [raises |-> TRUE, value |-> NoValue, exc |-> "Unauthorized: check the credentials"],
    [raises |-> TRUE, value |-> NoValue, exc |-> "JSONDecodeError: expecting value"] }

\* -------------------------------------------------------------- the state
VARIABLES
  env,               \* os.environ, restricted to EnvNames
  pc,                \* "idle" | "called" | "loading" | "loop" | "returned" | "raised"
  query_id,          \* argument of run_routine_query
  endpoints_to_use,  \* argument of run_routine_query (None or a list)
  target_endpoints,  \* local of run_routine_query
  idx,               \* position of the for loop in target_endpoints
  results,           \* local of run_routine_query
  retval,            \* the value returned, when pc = "returned"
  raised,            \* the exception propagated, when pc = "raised"
  calls,             \* history: the execute_sparql calls made, in order
  m_pc,              \* merge_count_results: "idle" | "returned" | "raised"
  results_dict,      \* argument of merge_count_results, as its items()
  group_var,         \* argument of merge_count_results
  m_out,             \* outcome of the call: exception raised, table returned
  m_calls,           \* history: the calls of merge_count_results made
  h_pc,              \* health_check: "idle" | "checking" | "returned" | "raised"
  h_idx,             \* position of the for loop in endpoints.items()
  status_map,        \* local of health_check, returned when h_pc = "returned"
  h_raised,          \* the exception propagated, when h_pc = "raised"
  probes,            \* history: the httpx.get calls made, in order
  l_pc,              \* load_endpoints: "idle" | "loading" | "returned" | "raised"
  endpoints,         \* the value load_endpoints returned
  l_raised,          \* the exception propagated, when l_pc = "raised"
  users,             \* USER_CONFIG["users"], the list of user records
  tokens,            \* the JWT each client holds: its payload, or none
  a_log,             \* the response to the last of /login, /users, /users/{name}
  r_pc,              \* /run_query: "idle" | "first" | "second" | "responded"
  r_req,             \* history: the request /run_query received
  r_resp,            \* the HTTP response of /run_query, when r_pc = "responded"
  r_invocations      \* history: the endpoint lists run_routine_query was called with

fanoutVars == <<env, pc, query_id, endpoints_to_use, target_endpoints, idx,
                results, retval, raised, calls>>

mergeVars == <<m_pc, results_dict, group_var, m_out, m_calls>>

healthVars == <<h_pc, h_idx, status_map, h_raised, probes>>

loadVars == <<l_pc, endpoints, l_raised>>

authVars == <<users, tokens, a_log>>

apiVars == <<r_pc, r_req, r_resp, r_invocations>>

serviceVars == <<loadVars, authVars, apiVars>>

vars == <<fanoutVars, mergeVars, healthVars, serviceVars>>

\* ---------------------------------------------------------- execute_sparql
\* One call of execute_sparql.  The setters of lines 63-73 only store their
\* arguments; the request is built, sent and converted by
\* sparql.query().convert() inside the try of lines 75-78, whose behaviour
\* is net.  The result says whether an exception leaves the function and,
\* if none does, the value returned.
\* variant: only transport errors are caught
execute_sparql_narrow(endpoint_url, query, username, password, net) ==
  IF net.raises
    THEN IF net.exc = "URLError: timed out"
           THEN [raised |-> FALSE, value |-> [error |-> <<net.exc>>]]
           ELSE [raised |-> TRUE, value |-> NoValue]
    ELSE [raised |-> FALSE, value |-> net.value]

execute_sparql(endpoint_url, query, username, password, net) ==
  IF net.raises
    THEN [raised |-> FALSE, value |-> [error |-> <<net.exc>>]]
    ELSE [raised |-> FALSE, value |-> net.value]

\* -------------------------------------------------------- run_routine_query
\* os.environ.get(name)
EnvGet(name) == env[name]

\* lines 124-125: os.environ.get(name) raises TypeError when name is no str
EnvTypeError(org) ==
  \/ /\ Truthy(Get(org, "username_env", None))
     /\ ~IsStr(org.username_env)
  \/ /\ Truthy(Get(org, "password_env", None))
     /\ ~IsStr(org.password_env)

\* lines 124-125: the credentials of a basic-auth endpoint
ResolveUsername(org) ==
  IF Truthy(Get(org, "username_env", None))
    THEN EnvGet(org.username_env)
    ELSE Get(org, "username", None)

ResolvePassword(org) ==
  IF Truthy(Get(org, "password_env", None))
    THEN EnvGet(org.password_env)
    ELSE None

\* variant: "and" for "or"
CredentialsMissing_and(org) ==
  ~Truthy(ResolveUsername(org)) /\ ~Truthy(ResolvePassword(org))

\* line 127
CredentialsMissing(org) ==
  ~Truthy(ResolveUsername(org)) \/ ~Truthy(ResolvePassword(org))

\* f"'{name}'"
Quote(name) == "'" \o name \o "'"

\* lines 128-135
MsgParts(org) ==
  (IF Truthy(Get(org, "username_env", None))
     THEN <<Quote(org.username_env)>>
     ELSE <<"'username' in endpoints_config.json">>)
  \o
  (IF Truthy(Get(org, "password_env", None))
     THEN <<Quote(org.password_env)>>
     ELSE <<>>)

\* lines 137-142
MissingCredentialsError(org_name, org) ==
  [error |-> <<"Missing credentials for endpoint", org_name, "Check">>
             \o MsgParts(org)]

\* line 110
UnknownEndpointError == [error |-> <<"Unknown endpoint">>]

\* line 93
UnknownQueryError == [error |-> <<"Unknown query">>]

\* an Optional[List[str]] argument: None, or a list
NoList == [is_none |-> TRUE]
List(l) == [is_none |-> FALSE, list |-> l]

\* variant: "endpoints_to_use if endpoints_to_use is not None else allowed"
TargetEndpoints_not_none(subset, allowed) ==
  IF ~subset.is_none THEN subset.list ELSE allowed

\* line 102: endpoints_to_use or allowed
TargetEndpoints(subset, allowed) ==
  IF ~subset.is_none /\ subset.list # <<>> THEN subset.list ELSE allowed

\* variant: results = {key: value}
DictSet_reset(d, key, value) == [k \in {key} |-> value]

\* results[key] = value
DictSet(d, key, value) ==
  [k \in DOMAIN d \cup {key} |-> IF k = key THEN value ELSE d[k]]

\* no call of run_routine_query has been made
FanoutIdle ==
  /\ pc = "idle"
  /\ query_id = None
  /\ endpoints_to_use = NoList
  /\ target_endpoints = <<>>
  /\ idx = 0
  /\ results = EmptyDict
  /\ retval = EmptyDict
  /\ raised = None
  /\ calls = <<>>

\* no call of merge_count_results has been made
MergeIdle ==
  /\ m_pc = "idle"
  /\ results_dict = <<>>
  /\ group_var = "country"
  /\ m_out = [exc |-> None, df |-> [columns |-> <<>>, rows |-> <<>>]]
  /\ m_calls = 0

\* no call of health_check has been made
HealthIdle ==
  /\ h_pc = "idle"
  /\ h_idx = 0
  /\ status_map = EmptyDict
  /\ h_raised = None
  /\ probes = <<>>

\* no call of load_endpoints has been made
LoadIdle ==
  /\ l_pc = "idle"
  /\ endpoints = EmptyDict
  /\ l_raised = None

\* user_config.json as loaded at import, lines 28-32: root is the Super
\* Admin, alice an administrator whose role is written "Developer"
InitialUsers ==
  << [username |-> "root", role |-> "Super_Admin",
      dashboard_access |-> "use", display_name |-> "Root"],
     [username |-> "alice", role |-> "Developer",
      dashboard_access |-> "use", display_name |-> "Alice"] >>

\* the clients: the two users, and zed, whose record was taken out of
\* user_config.json after the token zed holds was issued
Clients == {"root", "alice", "zed"}

NoToken == [issued |-> FALSE]
Token(payload) == [issued |-> TRUE, payload |-> payload]

\* a payload as login builds it, lines 234-240
Payload_of(username, role, display_name, dashboard_access) ==
  [sub |-> username, username |-> username, role |-> role,
   display_name |-> display_name, dashboard_access |-> dashboard_access]

InitialTokens ==
  [c \in Clients |->
     IF c = "zed" THEN Token(Payload_of("zed", "user", "Zed", "use"))
                  ELSE NoToken]

\* an HTTP response: the status, the detail of an HTTPException, the body
Response(status, detail, body) ==
  [status |-> status, detail |-> detail, body |-> body]

NoResponse == Response(0, "", EmptyDict)

NoLog == [op |-> None, status |-> 0, detail |-> ""]

NoRequest ==
  [credentials |-> [kind |-> "none"], query_id |-> None,
   endpoints |-> NoList, access |-> None]

\* no request has been made to the service
AuthIdle ==
  /\ users = InitialUsers
  /\ tokens = InitialTokens
  /\ a_log = NoLog

ApiIdle ==
  /\ r_pc = "idle"
  /\ r_req = NoRequest
  /\ r_resp = NoResponse
  /\ r_invocations = <<>>

ServiceIdle == LoadIdle /\ AuthIdle /\ ApiIdle

Init ==
  /\ env \in [EnvNames -> EnvValues]
  /\ FanoutIdle
  /\ MergeIdle
  /\ HealthIdle
  /\ ServiceIdle

\* lines 89-93: the query id is not in the registry
CallUnknownQuery(qid, subset) ==
  /\ qid \notin DOMAIN Queries
  /\ query_id' = qid
  /\ endpoints_to_use' = subset
  /\ pc' = "returned"
  /\ retval' = UnknownQueryError
  /\ UNCHANGED <<env, target_endpoints, idx, results, raised, calls>>
  /\ UNCHANGED <<mergeVars, healthVars, serviceVars>>

\* variant: the file error is turned into an error descriptor
CallQueryFileError_descriptor(qid, subset) ==
  /\ qid \in DOMAIN Queries
  /\ Queries[qid].query_file \notin DOMAIN QueryFiles
  /\ query_id' = qid
  /\ endpoints_to_use' = subset
  /\ pc' = "returned"
  /\ retval' = [error |-> <<"Unreadable query file">>]
  /\ UNCHANGED <<env, target_endpoints, idx, results, raised, calls>>
  /\ UNCHANGED <<mergeVars, healthVars, serviceVars>>

\* lines 89-96: the query file cannot be opened
CallQueryFileError(qid, subset) ==
  /\ qid \in DOMAIN Queries
  /\ Queries[qid].query_file \notin DOMAIN QueryFiles
  /\ query_id' = qid
  /\ endpoints_to_use' = subset
  /\ pc' = "raised"
  /\ raised' = "FileNotFoundError"
  /\ UNCHANGED <<env, target_endpoints, idx, results, retval, calls>>
  /\ UNCHANGED <<mergeVars, healthVars, serviceVars>>

\* lines 89-104: the loop is entered
CallStart(qid, subset) ==
  /\ qid \in DOMAIN Queries
  /\ Queries[qid].query_file \in DOMAIN QueryFiles
  /\ query_id' = qid
  /\ endpoints_to_use' = subset
  /\ target_endpoints' =
       TargetEndpoints(subset, Get(Queries[qid], "allowed_endpoints", <<>>))
  /\ idx' = 1
  /\ results' = EmptyDict
  /\ pc' = "loop"
  /\ UNCHANGED <<env, retval, raised, calls>>
  /\ UNCHANGED <<mergeVars, healthVars, serviceVars>>

\* variant: the unknown endpoint ends the batch
StepUnknownEndpoint_abort ==
  /\ pc = "loop"
  /\ idx <= Len(target_endpoints)
  /\ LET org_name == target_endpoints[idx] IN
       /\ org_name \notin DOMAIN Endpoints
       /\ results' = DictSet(results, org_name, UnknownEndpointError)
       /\ retval' = DictSet(results, org_name, UnknownEndpointError)
  /\ pc' = "returned"
  /\ UNCHANGED <<env, query_id, endpoints_to_use, target_endpoints, idx,
                 raised, calls>>
  /\ UNCHANGED <<mergeVars, healthVars, serviceVars>>

\* lines 106-111: one iteration, the endpoint has no descriptor
StepUnknownEndpoint ==
  /\ pc = "loop"
  /\ idx <= Len(target_endpoints)
  /\ LET org_name == target_endpoints[idx] IN
       /\ org_name \notin DOMAIN Endpoints
       /\ results' = DictSet(results, org_name, UnknownEndpointError)
  /\ idx' = idx + 1
  /\ UNCHANGED <<env, pc, query_id, endpoints_to_use, target_endpoints,
                 retval, raised, calls>>
  /\ UNCHANGED <<mergeVars, healthVars, serviceVars>>

\* lines 106-143: one iteration, basic auth without usable credentials
StepMissingCredentials ==
  /\ pc = "loop"
  /\ idx <= Len(target_endpoints)
  /\ LET org_name == target_endpoints[idx] IN
       /\ org_name \in DOMAIN Endpoints
       /\ LET org == Endpoints[org_name] IN
            /\ Get(org, "auth_method", "none") = "basic"
            /\ ~EnvTypeError(org)
            /\ CredentialsMissing(org)
            /\ results' = DictSet(results, org_name,
                                  MissingCredentialsError(org_name, org))
  /\ idx' = idx + 1
  /\ UNCHANGED <<env, pc, query_id, endpoints_to_use, target_endpoints,
                 retval, raised, calls>>
  /\ UNCHANGED <<mergeVars, healthVars, serviceVars>>

\* variant: a failed call is made again
StepExecute_retry(net) ==
  /\ pc = "loop"
  /\ idx <= Len(target_endpoints)
  /\ LET org_name == target_endpoints[idx] IN
       /\ org_name \in DOMAIN Endpoints
       /\ LET org == Endpoints[org_name]
              basic == Get(org, "auth_method", "none") = "basic"
              username == IF basic THEN ResolveUsername(org) ELSE None
              password == IF basic THEN ResolvePassword(org) ELSE None
              query == QueryFiles[Queries[query_id].query_file]
              out == execute_sparql(org.endpoint_url, query,
                                    username, password, net)
          IN
            /\ basic => ~EnvTypeError(org) /\ ~CredentialsMissing(org)
            /\ calls' = Append(calls,
                 [endpoint |-> org_name, url |-> org.endpoint_url,
                  username |-> username, password |-> password,
                  net |-> net, out |-> out, at |-> idx])
            /\ results' = DictSet(results, org_name, out.value)
            /\ idx' = IF net.raises THEN idx ELSE idx + 1
  /\ UNCHANGED <<env, pc, raised, query_id, endpoints_to_use,
                 target_endpoints, retval>>
  /\ UNCHANGED <<mergeVars, healthVars, serviceVars>>

\* lines 106-148: one iteration, the executor is called
StepExecute(net) ==
  /\ pc = "loop"
  /\ idx <= Len(target_endpoints)
  /\ LET org_name == target_endpoints[idx] IN
       /\ org_name \in DOMAIN Endpoints
       /\ LET org == Endpoints[org_name]
              basic == Get(org, "auth_method", "none") = "basic"
              username == IF basic THEN ResolveUsername(org) ELSE None
              password == IF basic THEN ResolvePassword(org) ELSE None
              query == QueryFiles[Queries[query_id].query_file]
              out == execute_sparql(org.endpoint_url, query,
                                    username, password, net)
          IN
            /\ basic => ~EnvTypeError(org) /\ ~CredentialsMissing(org)
            /\ calls' = Append(calls,
                 [endpoint |-> org_name, url |-> org.endpoint_url,
                  username |-> username, password |-> password,
                  net |-> net, out |-> out, at |-> idx])
            /\ IF out.raised
                 THEN /\ pc' = "raised"
                      /\ raised' = net.exc
                      /\ UNCHANGED <<results, idx>>
                 ELSE /\ results' = DictSet(results, org_name, out.value)
                      /\ idx' = idx + 1
                      /\ UNCHANGED <<pc, raised>>
  /\ UNCHANGED <<env, query_id, endpoints_to_use, target_endpoints, retval>>
  /\ UNCHANGED <<mergeVars, healthVars, serviceVars>>

\* lines 106-125: one iteration, an environment reference is no string
StepEnvTypeError ==
  /\ pc = "loop"
  /\ idx <= Len(target_endpoints)
  /\ LET org_name == target_endpoints[idx] IN
       /\ org_name \in DOMAIN Endpoints
       /\ Get(Endpoints[org_name], "auth_method", "none") = "basic"
       /\ EnvTypeError(Endpoints[org_name])
  /\ pc' = "raised"
  /\ raised' = "TypeError"
  /\ UNCHANGED <<env, query_id, endpoints_to_use, target_endpoints, idx,
                 results, retval, calls>>
  /\ UNCHANGED <<mergeVars, healthVars, serviceVars>>

\* line 150
Return ==
  /\ pc = "loop"
  /\ idx > Len(target_endpoints)
  /\ pc' = "returned"
  /\ retval' = results
  /\ UNCHANGED <<env, query_id, endpoints_to_use, target_endpoints, idx,
                 results, raised, calls>>
  /\ UNCHANGED <<mergeVars, healthVars, serviceVars>>

\* the endpoint subsets a caller passes: none, or a list of at most
\* MaxTargets ids, repetitions allowed
SubsetInputs ==
  {NoList} \cup { List(l) : l \in SeqsUpTo(EndpointIds, MaxTargets) }

Next ==
  \/ pc = "idle" /\ \E qid \in QueryIds, subset \in SubsetInputs :
                       CallUnknownQuery(qid, subset)
  \/ pc = "idle" /\ \E qid \in QueryIds, subset \in SubsetInputs :
                       CallQueryFileError(qid, subset)
  \/ pc = "idle" /\ \E qid \in QueryIds, subset \in SubsetInputs :
                       CallStart(qid, subset)
  \/ StepUnknownEndpoint
  \/ StepMissingCredentials
  \/ pc = "loop" /\ \E net \in NetOutcomes : StepExecute(net)
  \/ Return

Spec == Init /\ [][Next]_vars

\* one step of a fan-out that has begun: an iteration of the loop of lines
\* 106-148, or the return of line 150
FanoutStep ==
  \/ StepUnknownEndpoint
  \/ StepMissingCredentials
  \/ pc = "loop" /\ \E net \in NetOutcomes : StepExecute(net)
  \/ Return

\* the executor outcomes of the calls followed to their end: an answer, and
\* a transport error
FairOutcomes ==
  { net \in NetOutcomes :
      net.value = Payload("3") \/ net.exc = "URLError: timed out" }

FairNext ==
  \/ pc = "idle" /\ \E qid \in QueryIds, subset \in SubsetInputs :
                       CallUnknownQuery(qid, subset)
  \/ pc = "idle" /\ \E qid \in QueryIds, subset \in SubsetInputs :
                       CallQueryFileError(qid, subset)
  \/ pc = "idle" /\ \E qid \in QueryIds, subset \in SubsetInputs :
                       CallStart(qid, subset)
  \/ StepUnknownEndpoint
  \/ StepMissingCredentials
  \/ pc = "loop" /\ \E net \in FairOutcomes : StepExecute(net)
  \/ Return

\* run_routine_query is synchronous and every call it makes returns: a
\* fan-out that can take a step takes one
FairSpec == Init /\ [][FairNext]_vars /\ WF_vars(FanoutStep)

\* ===================================================== merge_count_results
\* Python values of any type, as the JSON of an endpoint holds them
PyNone == [py |-> "NoneType"]
PyStr(s) == [py |-> "str", s |-> s]
PyInt(n) == [py |-> "int", n |-> n]
PyList(l) == [py |-> "list", items |-> l]
PyDict(d) == [py |-> "dict", map |-> d]

\* the characters of the string literals that occur as count values
Chars ==
  [ s \in {"0", "1", "2", "3", "2.5"} |->
      CASE s = "2.5" -> <<"2", ".", "5">>
        [] OTHER -> <<s>> ]

Digits == {"0", "1", "2", "3", "4", "5", "6", "7", "8", "9"}

DigitValue(c) ==
  CASE c = "0" -> 0 [] c = "1" -> 1 [] c = "2" -> 2 [] c = "3" -> 3
    [] c = "4" -> 4 [] c = "5" -> 5 [] c = "6" -> 6 [] c = "7" -> 7
    [] c = "8" -> 8 [] c = "9" -> 9

\* str.strip() on a sequence of characters
RECURSIVE LStrip(_)
LStrip(cs) == IF cs # <<>> /\ Head(cs) = " " THEN LStrip(Tail(cs)) ELSE cs
RECURSIVE RStrip(_)
RStrip(cs) ==
  IF cs # <<>> /\ cs[Len(cs)] = " "
    THEN RStrip(SubSeq(cs, 1, Len(cs) - 1))
    ELSE cs

\* the digits after an optional sign
Unsigned(cs) ==
  IF cs # <<>> /\ Head(cs) \in {"+", "-"} THEN Tail(cs) ELSE cs

\* digits, single underscores allowed between two digits
IsDigitString(cs) ==
  /\ cs # <<>>
  /\ \A i \in DOMAIN cs :
       \/ cs[i] \in Digits
       \/ /\ cs[i] = "_"
          /\ 1 < i /\ i < Len(cs)
          /\ cs[i - 1] \in Digits /\ cs[i + 1] \in Digits

RECURSIVE DigitsValue(_, _)
DigitsValue(cs, acc) ==
  IF cs = <<>> THEN acc
  ELSE IF Head(cs) = "_" THEN DigitsValue(Tail(cs), acc)
  ELSE DigitsValue(Tail(cs), 10 * acc + DigitValue(Head(cs)))

\* int(x) of line 183: the integer, or the exception int() raises
PyIntOf(x) ==
  CASE x.py = "int" -> [exc |-> None, n |-> x.n]
    [] x.py = "str" ->
         LET cs == RStrip(LStrip(Chars[x.s]))
             ds == Unsigned(cs)
         IN IF IsDigitString(ds)
              THEN [exc |-> None,
                    n |-> IF Head(cs) = "-" THEN 0 - DigitsValue(ds, 0)
                                            ELSE DigitsValue(ds, 0)]
              ELSE [exc |-> "ValueError", n |-> 0]
    [] OTHER -> [exc |-> "TypeError", n |-> 0]

\* x["value"] of lines 181 and 183: the item, or the exception raised
ValueOf(x) ==
  CASE x.py = "dict" ->
         IF "value" \in DOMAIN x.map
           THEN [exc |-> None, item |-> x.map["value"]]
           ELSE [exc |-> "KeyError", item |-> PyNone]
    [] OTHER -> [exc |-> "TypeError", item |-> PyNone]

\* combined, a dict in insertion order: a sequence of [key, total]
HasKey(combined, key) == \E i \in DOMAIN combined : combined[i].key = key

\* combined.get(key, 0)
CombinedGet(combined, key) ==
  IF HasKey(combined, key)
    THEN combined[CHOOSE i \in DOMAIN combined : combined[i].key = key].total
    ELSE 0

\* variant: combined[key] = count
Accumulate_assign(combined, key, count) ==
  IF HasKey(combined, key)
    THEN [i \in DOMAIN combined |->
            IF combined[i].key = key
              THEN [key |-> key, total |-> count]
              ELSE combined[i]]
    ELSE Append(combined, [key |-> key, total |-> count])

\* variant: if count: combined[key] = combined.get(key, 0) + count
Accumulate_nonzero(combined, key, count) ==
  IF count = 0
    THEN combined
  ELSE IF HasKey(combined, key)
    THEN [i \in DOMAIN combined |->
            IF combined[i].key = key
              THEN [key |-> key, total |-> CombinedGet(combined, key) + count]
              ELSE combined[i]]
    ELSE Append(combined, [key |-> key, total |-> 0 + count])

\* line 188: combined[key] = combined.get(key, 0) + count
Accumulate(combined, key, count) ==
  IF HasKey(combined, key)
    THEN [i \in DOMAIN combined |->
            IF combined[i].key = key
              THEN [key |-> key, total |-> CombinedGet(combined, key) + count]
              ELSE combined[i]]
    ELSE Append(combined, [key |-> key, total |-> 0 + count])

\* lines 177-188, one binding row (a JSON object): the new combined, or the
\* exception that leaves merge_count_results
MergeRow(combined, row, gv) ==
  IF gv \notin DOMAIN row.map \/ "count" \notin DOMAIN row.map
    THEN [exc |-> None, combined |-> combined]
    ELSE
      LET key == ValueOf(row.map[gv])
          cnt == ValueOf(row.map["count"])
          int == IF cnt.exc = None THEN PyIntOf(cnt.item)
                                   ELSE [exc |-> cnt.exc, n |-> 0]
      IN IF key.exc # None
           THEN [exc |-> key.exc, combined |-> combined]
         ELSE IF int.exc \in {"ValueError", "KeyError"}
           THEN [exc |-> None, combined |-> combined]
         ELSE IF int.exc # None
           THEN [exc |-> int.exc, combined |-> combined]
         ELSE IF key.item.py \in {"dict", "list"}
           THEN [exc |-> "TypeError", combined |-> combined]
         ELSE [exc |-> None,
               combined |-> Accumulate(combined, key.item, int.n)]

\* lines 176-188: the rows of one endpoint, in order
RECURSIVE MergeRows(_, _, _)
MergeRows(combined, rows, gv) ==
  IF rows = <<>>
    THEN [exc |-> None, combined |-> combined]
    ELSE LET r == MergeRow(combined, Head(rows), gv)
         IN IF r.exc # None THEN r
            ELSE MergeRows(r.combined, Tail(rows), gv)

\* bool(x) of line 172
PyTruthy(x) ==
  CASE x.py = "NoneType" -> FALSE
    [] x.py = "str" -> x.s # ""
    [] x.py = "int" -> x.n # 0
    [] x.py = "list" -> x.items # <<>>
    [] x.py = "dict" -> DOMAIN x.map # {}

\* lines 163-188, one endpoint entry
MergeResult(combined, result, gv) ==
  IF result.py # "dict"
    THEN [exc |-> None, combined |-> combined]
  ELSE IF "error" \in DOMAIN result.map
    THEN [exc |-> None, combined |-> combined]
  ELSE
    LET res == Get(result.map, "results", PyDict(EmptyDict)) IN
      IF res.py # "dict"
        THEN [exc |-> "AttributeError", combined |-> combined]
      ELSE
        LET bindings == Get(res.map, "bindings", PyList(<<>>)) IN
          IF ~PyTruthy(bindings)
            THEN [exc |-> None, combined |-> combined]
          ELSE IF bindings.py # "list"
            THEN [exc |-> "TypeError", combined |-> combined]
          ELSE MergeRows(combined, bindings.items, gv)

\* lines 160-188: the entries of results_dict.items(), in order
RECURSIVE MergeItems(_, _, _)
MergeItems(combined, items, gv) ==
  IF items = <<>>
    THEN [exc |-> None, combined |-> combined]
    ELSE LET r == MergeResult(combined, Head(items).value, gv)
         IN IF r.exc # None THEN r
            ELSE MergeItems(r.combined, Tail(items), gv)

\* lines 191-194: the DataFrame, its columns and its rows in order
DataFrame(combined) ==
  [columns |-> <<"country", "total_count">>,
   rows |-> [i \in DOMAIN combined |->
               [country |-> combined[i].key,
                total_count |-> combined[i].total]]]

\* variant: combined is kept from the previous call
merge_count_results_kept(items, gv) ==
  LET kept == [i \in DOMAIN m_out.df.rows |->
                 [key |-> m_out.df.rows[i].country,
                  total |-> m_out.df.rows[i].total_count]]
      r == MergeItems(kept, items, gv)
  IN IF r.exc # None
       THEN [exc |-> r.exc, df |-> DataFrame(<<>>)]
       ELSE [exc |-> None, df |-> DataFrame(r.combined)]

\* merge_count_results(results_dict, group_var): the exception raised, or
\* the table returned
merge_count_results(items, gv) ==
  LET r == MergeItems(<<>>, items, gv)
  IN IF r.exc # None
       THEN [exc |-> r.exc, df |-> DataFrame(<<>>)]
       ELSE [exc |-> None, df |-> DataFrame(r.combined)]

\* ------------------------------------------ the inputs of the merge calls
\* a SPARQL JSON cell {type, value}, and a cell without "value"
Cell(s) == PyDict([type |-> PyStr("literal"), value |-> PyStr(s)])
CellNoValue == PyDict([type |-> PyStr("bnode")])

\* the binding rows an endpoint may answer with: four rows with a count for
\* both group variables (one of them 0, under a key in lower case), a row
\* with a count that is no integer and without gender, a row whose country
\* and count are without value, a row without count
RowNL3 ==
  PyDict([country |-> Cell("NL"), gender |-> Cell("F"), count |-> Cell("3")])
RowNL2 ==
  PyDict([country |-> Cell("NL"), gender |-> Cell("M"), count |-> Cell("2")])
RowBE1 ==
  PyDict([country |-> Cell("BE"), gender |-> Cell("F"), count |-> Cell("1")])

RowShapes ==
  { RowNL3, RowNL2, RowBE1,
    PyDict([country |-> Cell("nl"), gender |-> Cell("F"), count |-> Cell("0")]),
    PyDict([country |-> Cell("BE"), count |-> Cell("2.5")]),
    PyDict([country |-> CellNoValue, gender |-> Cell("M"), count |-> CellNoValue]),
    PyDict([country |-> Cell("NL"), gender |-> Cell("F")]) }

\* {"results": {"bindings": rows}}
Success(rows) == PyDict([results |-> PyDict([bindings |-> PyList(rows)])])

\* the entries that are no list of rows: a value that is no dict, an error
\* descriptor, results that are null
OtherShapes ==
  { PyStr("oops"),
    PyDict([error |-> PyStr("timeout")]),
    PyDict([results |-> PyNone]) }

\* the keys of the entries, in insertion order
MergeKeys == <<"A", "B", "C", "D">>

\* results_dict.items() of the map that holds the values vs, in order
Items(vs) == [i \in DOMAIN vs |-> [key |-> MergeKeys[i], value |-> vs[i]]]

GroupVars == {"country", "gender"}

\* the binding rows of an entry (none when it is no list of rows)
RowsOf(result) ==
  IF /\ result.py = "dict"
     /\ "results" \in DOMAIN result.map
     /\ result.map["results"].py = "dict"
     /\ "bindings" \in DOMAIN result.map["results"].map
     /\ result.map["results"].map["bindings"].py = "list"
    THEN result.map["results"].map["bindings"].items
    ELSE <<>>

RECURSIVE TotalRows(_)
TotalRows(items) ==
  IF items = <<>> THEN 0
  ELSE Len(RowsOf(Head(items).value)) + TotalRows(Tail(items))

\* the caller puts one more entry into the map it will merge: an entry that
\* is no list of rows, or an answer without rows yet
AddEntry(x) ==
  /\ m_pc = "idle"
  /\ Len(results_dict) < MaxMergeEndpoints
  /\ results_dict' =
       Append(results_dict,
              [key |-> MergeKeys[Len(results_dict) + 1], value |-> x])
  /\ UNCHANGED <<m_pc, group_var, m_out, m_calls>>
  /\ UNCHANGED <<fanoutVars, healthVars, serviceVars>>

\* the last entry, an answer, gets one more binding row
AddRow(row) ==
  /\ m_pc = "idle"
  /\ results_dict # <<>>
  /\ TotalRows(results_dict) < MaxRows
  /\ LET n == Len(results_dict)
         last == results_dict[n]
     IN /\ last.value \in { Success(RowsOf(last.value)) }
        /\ results_dict' =
             [results_dict EXCEPT
                ![n] = [key |-> last.key,
                        value |-> Success(Append(RowsOf(last.value), row))]]
  /\ UNCHANGED <<m_pc, group_var, m_out, m_calls>>
  /\ UNCHANGED <<fanoutVars, healthVars, serviceVars>>

\* the call merge_count_results(results_dict, gv)
MergeCall(gv) ==
  /\ m_pc = "idle"
  /\ group_var' = gv
  /\ m_out' = merge_count_results(results_dict, gv)
  /\ m_pc' = IF m_out'.exc # None THEN "raised" ELSE "returned"
  /\ m_calls' = m_calls + 1
  /\ UNCHANGED results_dict
  /\ UNCHANGED <<fanoutVars, healthVars, serviceVars>>

MergeInit ==
  /\ env = [n \in EnvNames |-> None]
  /\ FanoutIdle
  /\ MergeIdle
  /\ HealthIdle
  /\ ServiceIdle

MergeNext ==
  \/ m_pc = "idle" /\ \E x \in OtherShapes \cup {Success(<<>>)} : AddEntry(x)
  \/ m_pc = "idle" /\ \E row \in RowShapes : AddRow(row)
  \/ m_pc = "idle" /\ \E gv \in GroupVars : MergeCall(gv)

MergeSpec == MergeInit /\ [][MergeNext]_vars

\* ------------------------------------ the same map merged more than once
\* whole entries of a fan-out map: answers with rows (keys that recur within
\* and across entries, a count of 0, a count that is no integer), an empty
\* answer, an error descriptor, a value that is no dict, an ASK answer (no
\* results), results that are null, bindings that are a number
EntryShapes ==
  { Success(<<RowNL3, RowNL2>>),
    Success(<<RowBE1>>),
    Success(<<PyDict([country |-> Cell("nl"), gender |-> Cell("F"),
                      count |-> Cell("0")]), RowNL3>>),
    Success(<<PyDict([country |-> Cell("BE"), count |-> Cell("2.5")]),
              RowBE1>>),
    Success(<<>>),
    PyDict([error |-> PyStr("timeout")]),
    PyStr("oops"),
    PyDict([boolean |-> PyStr("true")]),
    PyDict([results |-> PyNone]),
    PyDict([results |-> PyDict([bindings |-> PyInt(5)])]) }

\* the call merge_count_results(results_dict, group_var) once more, on the
\* map and the group variable of the call before
MergeAgain ==
  /\ m_pc # "idle"
  /\ m_calls < MaxMergeCalls
  /\ m_out' = merge_count_results(results_dict, group_var)
  /\ m_pc' = IF m_out'.exc # None THEN "raised" ELSE "returned"
  /\ m_calls' = m_calls + 1
  /\ UNCHANGED <<results_dict, group_var>>
  /\ UNCHANGED <<fanoutVars, healthVars, serviceVars>>

RepeatInit ==
  /\ env = [n \in EnvNames |-> None]
  /\ FanoutIdle
  /\ m_pc = "idle"
  /\ results_dict \in
       { Items(vs) : vs \in SeqsUpTo(EntryShapes, MaxMergeEndpoints) }
  /\ group_var = "country"
  /\ m_out = [exc |-> None, df |-> [columns |-> <<>>, rows |-> <<>>]]
  /\ m_calls = 0
  /\ HealthIdle
  /\ ServiceIdle

RepeatNext ==
  \/ m_pc = "idle" /\ \E gv \in GroupVars : MergeCall(gv)
  \/ MergeAgain

RepeatSpec == RepeatInit /\ [][RepeatNext]_vars

\* ================================================ endpoint_health_check.py
\* the "organizations" of endpoints_config.json as returned by
\* load_endpoints of endpoint_health_check.py, and the order of its items():
\*   A  a SPARQL endpoint, no authentication
\*   B  a SPARQL endpoint, basic, both credentials by environment reference
\*   C  no SPARQL endpoint, basic, static username, no password reference
Organizations ==
  [ A |-> [endpoint_url |-> "http://a/sparql", type |-> "sparql"],
    B |-> [endpoint_url |-> "http://b/sparql", type |-> "sparql",
           auth_method |-> "basic",
           username_env |-> "SPARQL_USER", password_env |-> "SPARQL_PASS"],
    C |-> [endpoint_url |-> "http://c/api", auth_method |-> "basic",
           username |-> "carol"] ]
HealthOrder == <<"A", "B", "C">>

\* line 36: latency > 2.0, the latency in microseconds
SlowLatency == 2000000

\* an optional int (http_status): None, or the number
NoInt == <<>>
SomeInt(n) == <<n>>

\* an exception object, or None
NoError == [is_none |-> TRUE, cls |-> "", msg |-> ""]
Error(cls, msg) == [is_none |-> FALSE, cls |-> cls, msg |-> msg]

\* repr(e) of an exception
Repr(e) == e.cls \o "('" \o e.msg \o "')"

\* what httpx.get(url, ..., timeout=5.0) does for one probe, and the time
\* on the clock when it is over: a response with a status code, or an
\* exception
StatusCodes == {200, 299, 300, 401, 403, 404, 500, 503}
Latencies == {150000, SlowLatency, SlowLatency + 1}
ProbeOutcomes ==
  { [raises |-> FALSE, status_code |-> c, latency |-> l, exc |-> NoError] :
      c \in StatusCodes, l \in Latencies }
  \cup
  { [raises |-> TRUE, status_code |-> 0, latency |-> 20000,
     exc |-> Error("ConnectError", "All connection attempts failed")],
    [raises |-> TRUE, status_code |-> 0, latency |-> 5000000,
     exc |-> Error("ReadTimeout", "timed out")] }

\* variant: latency >= 2.0
classify_status_ge(ok, http_status, latency, error) ==
  IF ~error.is_none /\ http_status = NoInt
    THEN "offline"
  ELSE IF http_status # NoInt /\ 200 <= http_status[1] /\ http_status[1] < 300
    THEN IF latency >= SlowLatency THEN "degraded" ELSE "online"
  ELSE IF http_status \in {SomeInt(401), SomeInt(403)}
    THEN "online"
  ELSE IF http_status # NoInt /\ http_status[1] >= 500
    THEN "error"
  ELSE "degraded"

\* lines 19-51; the latency is never None at the one call, line 99
classify_status(ok, http_status, latency, error) ==
  IF ~error.is_none /\ http_status = NoInt
    THEN "offline"
  ELSE IF http_status # NoInt /\ 200 <= http_status[1] /\ http_status[1] < 300
    THEN IF latency > SlowLatency THEN "degraded" ELSE "online"
  ELSE IF http_status \in {SomeInt(401), SomeInt(403)}
    THEN "online"
  ELSE IF http_status # NoInt /\ http_status[1] >= 500
    THEN "error"
  ELSE "degraded"

\* the auth argument of httpx.get: None, or the pair (username, password)
NoAuth == [is_none |-> TRUE, username |-> None, password |-> None]

\* variant: if username or password
ProbeAuth_or(cfg) ==
  IF Get(cfg, "auth_method", "none") = "basic"
    THEN
      LET username == IF Truthy(Get(cfg, "username_env", None))
                        THEN EnvGet(cfg.username_env)
                        ELSE Get(cfg, "username", None)
          password == IF Truthy(Get(cfg, "password_env", None))
                        THEN EnvGet(cfg.password_env)
                        ELSE None
      IN IF Truthy(username) \/ Truthy(password)
           THEN [is_none |-> FALSE, username |-> username,
                 password |-> password]
           ELSE NoAuth
    ELSE NoAuth

\* lines 62-71
ProbeAuth(cfg) ==
  IF Get(cfg, "auth_method", "none") = "basic"
    THEN
      LET username == IF Truthy(Get(cfg, "username_env", None))
                        THEN EnvGet(cfg.username_env)
                        ELSE Get(cfg, "username", None)
          password == IF Truthy(Get(cfg, "password_env", None))
                        THEN EnvGet(cfg.password_env)
                        ELSE None
      IN IF Truthy(username) /\ Truthy(password)
           THEN [is_none |-> FALSE, username |-> username,
                 password |-> password]
           ELSE NoAuth
    ELSE NoAuth

\* lines 81-92: the request of the probe
ProbeRequest(cfg) ==
  [url |-> Get(cfg, "endpoint_url", None),
   auth |-> ProbeAuth(cfg),
   sparql |-> Get(cfg, "type", None) = "sparql"]

\* the record check_endpoint returns, lines 101-106
HealthRecord(status, latency, http_status, error) ==
  [status |-> status,
   latency_ms |-> latency \div 1000,
   http_status |-> http_status,
   error |-> IF ~error.is_none THEN Repr(error) ELSE None]

\* variant: no try around httpx.get
check_endpoint_notry(name, cfg, o) ==
  LET http_status == IF o.raises THEN NoInt ELSE SomeInt(o.status_code)
      error == IF o.raises THEN o.exc ELSE NoError
      ok == ~o.raises /\ 200 <= o.status_code /\ o.status_code < 300
      status == classify_status(ok, http_status, o.latency, error)
  IN [raised |-> IF o.raises THEN o.exc.cls ELSE None,
      value |-> HealthRecord(status, o.latency, http_status, error)]

\* check_endpoint(name, cfg), lines 54-106, when httpx.get does o: the
\* exception that leaves it (none does) and the record returned
check_endpoint(name, cfg, o) ==
  LET http_status == IF o.raises THEN NoInt ELSE SomeInt(o.status_code)
      error == IF o.raises THEN o.exc ELSE NoError
      ok == ~o.raises /\ 200 <= o.status_code /\ o.status_code < 300
      status == classify_status(ok, http_status, o.latency, error)
  IN [raised |-> None,
      value |-> HealthRecord(status, o.latency, http_status, error)]

\* lines 114-115: the registry is loaded and the loop is entered
HealthStart ==
  /\ h_pc = "idle"
  /\ h_pc' = "checking"
  /\ h_idx' = 1
  /\ status_map' = EmptyDict
  /\ UNCHANGED <<h_raised, probes>>
  /\ UNCHANGED <<fanoutVars, mergeVars, serviceVars>>

\* line 114: endpoints_config.json has no "organizations"
HealthLoadError ==
  /\ h_pc = "idle"
  /\ h_pc' = "raised"
  /\ h_raised' = "KeyError"
  /\ UNCHANGED <<h_idx, status_map, probes>>
  /\ UNCHANGED <<fanoutVars, mergeVars, serviceVars>>

\* lines 117-119: one iteration, the endpoint is probed
CheckEndpoint(o) ==
  /\ h_pc = "checking"
  /\ h_idx <= Len(HealthOrder)
  /\ LET name == HealthOrder[h_idx]
         cfg == Organizations[name]
         r == check_endpoint(name, cfg, o)
     IN /\ probes' = Append(probes, [name |-> name,
                                     request |-> ProbeRequest(cfg),
                                     outcome |-> o])
        /\ IF r.raised # None
             THEN /\ h_pc' = "raised"
                  /\ h_raised' = r.raised
                  /\ UNCHANGED <<h_idx, status_map>>
             ELSE /\ status_map' = DictSet(status_map, name, r.value)
                  /\ h_idx' = h_idx + 1
                  /\ UNCHANGED <<h_pc, h_raised>>
  /\ UNCHANGED <<fanoutVars, mergeVars, serviceVars>>

\* line 121
HealthReturn ==
  /\ h_pc = "checking"
  /\ h_idx > Len(HealthOrder)
  /\ h_pc' = "returned"
  /\ UNCHANGED <<h_idx, status_map, h_raised, probes>>
  /\ UNCHANGED <<fanoutVars, mergeVars, serviceVars>>

\* health_check() called on its own
HealthNext ==
  \/ HealthStart
  \/ HealthLoadError
  \/ h_pc = "checking" /\ \E o \in ProbeOutcomes : CheckEndpoint(o)
  \/ HealthReturn

HealthSpec == Init /\ [][HealthNext]_vars

\* ============================ run_routine_query with its load_endpoints
\* the probe outcomes and the endpoint subsets of the calls followed from
\* their first line on
EngineProbeOutcomes ==
  { o \in ProbeOutcomes :
      \/ o.raises /\ o.exc.cls = "ConnectError"
      \/ ~o.raises /\ o.status_code \in {200, 503} /\ o.latency = 150000 }
EngineSubsets == {NoList, List(<<"A">>), List(<<"Z", "B">>)}

\* lines 89-90 and 27-34: run_routine_query(qid, subset) loads the
\* registries; load_endpoints has read the "platforms" and calls
\* health_check()
RunStart(qid, subset) ==
  /\ pc = "idle"
  /\ h_pc = "idle"
  /\ query_id' = qid
  /\ endpoints_to_use' = subset
  /\ pc' = "loading"
  /\ UNCHANGED <<env, target_endpoints, idx, results, retval, raised, calls>>
  /\ UNCHANGED <<mergeVars, healthVars, serviceVars>>

\* lines 33-46: health_check() has returned or raised
HealthOver == pc = "loading" /\ h_pc \in {"returned", "raised"}

EngineNext ==
  \/ pc = "idle" /\ \E qid \in QueryIds, subset \in EngineSubsets :
                       RunStart(qid, subset)
  \/ pc = "loading" /\ HealthStart
  \/ pc = "loading" /\ HealthLoadError
  \/ pc = "loading" /\ \E o \in EngineProbeOutcomes : CheckEndpoint(o)
  \/ pc = "loading" /\ HealthReturn
  \/ HealthOver /\ CallUnknownQuery(query_id, endpoints_to_use)
  \/ HealthOver /\ CallQueryFileError(query_id, endpoints_to_use)
  \/ HealthOver /\ CallStart(query_id, endpoints_to_use)
  \/ StepUnknownEndpoint
  \/ StepMissingCredentials
  \/ pc = "loop" /\ \E net \in NetOutcomes : StepExecute(net)
  \/ Return

EngineSpec == Init /\ [][EngineNext]_vars

\* ============================================ load_endpoints on its own
\* variant: without the status of the file
OverlayStatus_nofile(cfg, name, dynamic_status) ==
  IF name \in DOMAIN dynamic_status
       /\ "status" \in DOMAIN dynamic_status[name]
    THEN DictSet(cfg, "status", dynamic_status[name].status)
    ELSE DictSet(cfg, "status", "unknown")

\* lines 39-44: the status of one platform.  A record of the health check is
\* a dict with keys, so "live" is true exactly when the name has a record.
OverlayStatus(cfg, name, dynamic_status) ==
  IF name \in DOMAIN dynamic_status
       /\ "status" \in DOMAIN dynamic_status[name]
    THEN DictSet(cfg, "status", dynamic_status[name].status)
    ELSE DictSet(cfg, "status", Get(cfg, "status", "unknown"))

\* lines 38-46: the platforms with their statuses
OverlayStatuses(orgs, dynamic_status) ==
  [name \in DOMAIN orgs |-> OverlayStatus(orgs[name], name, dynamic_status)]

\* what open() and json.load(e)["platforms"] of lines 27-29 can raise
ConfigErrors == {"FileNotFoundError", "JSONDecodeError", "KeyError"}

\* lines 27-34: the platforms are read and health_check() is called
LoadStart ==
  /\ l_pc = "idle"
  /\ h_pc = "idle"
  /\ l_pc' = "loading"
  /\ UNCHANGED <<endpoints, l_raised>>
  /\ UNCHANGED <<fanoutVars, mergeVars, healthVars, authVars, apiVars>>

\* lines 27-29: the file is missing, is no JSON or has no "platforms"
LoadConfigError(e) ==
  /\ l_pc = "idle"
  /\ l_pc' = "raised"
  /\ l_raised' = e
  /\ UNCHANGED endpoints
  /\ UNCHANGED <<fanoutVars, mergeVars, healthVars, authVars, apiVars>>

\* lines 33-46: health_check() has returned its map, or has raised and left
\* dynamic_status empty; the statuses are set and the platforms returned
LoadReturn ==
  /\ l_pc = "loading"
  /\ h_pc \in {"returned", "raised"}
  /\ LET dynamic_status == IF h_pc = "returned" THEN status_map ELSE EmptyDict
     IN endpoints' = OverlayStatuses(Endpoints, dynamic_status)
  /\ l_pc' = "returned"
  /\ UNCHANGED l_raised
  /\ UNCHANGED <<fanoutVars, mergeVars, healthVars, authVars, apiVars>>

LoadNext ==
  \/ LoadStart
  \/ \E e \in ConfigErrors : LoadConfigError(e)
  \/ l_pc = "loading" /\ HealthStart
  \/ l_pc = "loading" /\ HealthLoadError
  \/ l_pc = "loading" /\ \E o \in EngineProbeOutcomes : CheckEndpoint(o)
  \/ l_pc = "loading" /\ HealthReturn
  \/ LoadReturn

LoadSpec == Init /\ [][LoadNext]_vars

\* ================================================================== api.py
SUPER_ADMIN_ROLE == "Super_Admin"
ADMIN_ROLE == "admin"
USER_ROLE == "user"
VALID_ROLES == {SUPER_ADMIN_ROLE, ADMIN_ROLE, USER_ROLE}
VALID_DASHBOARD_ACCESS == {"none", "view", "use"}

\* s.strip() and s.lower(), on the strings a configuration or a request of
\* the model holds
Strip(s) ==
  CASE s = " Super_Admin " -> "Super_Admin"
    [] s = " use "         -> "use"
    [] OTHER               -> s

Lower(s) ==
  CASE s = "Super_Admin"   -> "super_admin"
    [] s = "Administrator" -> "administrator"
    [] s = "Developer"     -> "developer"
    [] s = "VIEW"          -> "view"
    [] OTHER               -> s

\* lines 94-111
normalize_role(role) ==
  IF ~Truthy(role)
    THEN USER_ROLE
    ELSE LET role_clean == Strip(role)
             role_lower == Lower(role_clean)
         IN IF role_clean = SUPER_ADMIN_ROLE
              THEN SUPER_ADMIN_ROLE
              ELSE IF role_lower \in {"developer", "dev", "administrator"}
                     THEN ADMIN_ROLE
                     ELSE IF role_lower \in {ADMIN_ROLE, USER_ROLE}
                            THEN role_lower
                            ELSE USER_ROLE

\* lines 115-119
normalize_dashboard_access(value) ==
  IF ~Truthy(value)
    THEN "none"
    ELSE LET v == Lower(Strip(value))
         IN IF v \in VALID_DASHBOARD_ACCESS THEN v ELSE "none"

\* lines 88-92: the place in the list of the first record of that name, 0
\* for None
find_user(us, username) ==
  IF \E i \in DOMAIN us : us[i].username = username
    THEN CHOOSE i \in DOMAIN us :
           /\ us[i].username = username
           /\ \A j \in DOMAIN us : us[j].username = username => i <= j
    ELSE 0

\* lines 183-185
get_latest_user_record(us, username) == find_user(us, username)

\* the Authorization header of a request: none, a token that does not
\* decode (forged, damaged, expired), a token that decodes to a payload
NoCredentials == [kind |-> "none"]
InvalidToken == [kind |-> "invalid"]
Bearer(payload) == [kind |-> "jwt", payload |-> payload]

\* the outcome of a dependency: the HTTPException raised (status, detail),
\* or status 200 and the user it returns
NoUser == Payload_of(None, None, None, None)
Denied(status, detail) == [status |-> status, detail |-> detail, user |-> NoUser]
Allowed(user) == [status |-> 200, detail |-> "", user |-> user]

\* lines 41 and 167-173: HTTPBearer rejects a request without credentials,
\* jwt.decode one whose token does not decode
get_current_user(cred) ==
  CASE cred.kind = "none"    -> Denied(403, "Not authenticated")
    [] cred.kind = "invalid" -> Denied(401, "Invalid or expired token")
    [] OTHER                 -> Allowed(cred.payload)

\* lines 176-180
require_admin(cred) ==
  LET current_user == get_current_user(cred)
  IN IF current_user.status # 200
       THEN current_user
       ELSE IF normalize_role(current_user.user.role)
                 \notin {ADMIN_ROLE, SUPER_ADMIN_ROLE}
              THEN Denied(403, "Admin privileges required")
              ELSE current_user

\* variant: the permission is read from the token
require_dashboard_use_token(cred, us) ==
  LET current_user == get_current_user(cred)
      username == IF Truthy(current_user.user.username)
                    THEN current_user.user.username
                    ELSE current_user.user.sub
      access == normalize_dashboard_access(current_user.user.dashboard_access)
  IN IF current_user.status # 200
       THEN current_user
       ELSE IF ~Truthy(username)
              THEN Denied(401, "Invalid token payload")
              ELSE IF access # "use"
                     THEN Denied(403, "Dashboard 'use' permission required")
                     ELSE Allowed(current_user.user)

\* lines 188-207
require_dashboard_use(cred, us) ==
  LET current_user == get_current_user(cred)
      username == IF Truthy(current_user.user.username)
                    THEN current_user.user.username
                    ELSE current_user.user.sub
      i == get_latest_user_record(us, username)
      access == normalize_dashboard_access(us[i].dashboard_access)
  IN IF current_user.status # 200
       THEN current_user
       ELSE IF ~Truthy(username)
              THEN Denied(401, "Invalid token payload")
              ELSE IF i = 0
                     THEN Denied(401, "User not found")
                     ELSE IF access # "use"
                            THEN Denied(403, "Dashboard 'use' permission required")
                            ELSE Allowed(Payload_of(us[i].username,
                                                    normalize_role(us[i].role),
                                                    us[i].display_name,
                                                    access))

\* the credentials a request may carry: none, a token that does not decode,
\* the token a client holds
Credentials ==
  {NoCredentials, InvalidToken}
    \cup { Bearer(tokens[c].payload) : c \in { d \in Clients : tokens[d].issued } }

\* the user a request is made by, and the role and the dashboard permission
\* the user list gives that user when the request arrives
Caller(cred) == IF cred.kind = "jwt" THEN cred.payload.username ELSE None

LatestRole(cred) ==
  IF cred.kind = "jwt" /\ find_user(users, cred.payload.username) # 0
    THEN normalize_role(users[find_user(users, cred.payload.username)].role)
    ELSE None

LatestAccess(cred) ==
  IF cred.kind = "jwt" /\ find_user(users, cred.payload.username) # 0
    THEN normalize_dashboard_access(
           users[find_user(users, cred.payload.username)].dashboard_access)
    ELSE None

\* the users whose record gives them the Super Admin role
SuperAdmins(us) ==
  { us[i].username : i \in { j \in DOMAIN us :
                               normalize_role(us[j].role) = SUPER_ADMIN_ROLE } }

Log(op, status, detail) == [op |-> op, status |-> status, detail |-> detail]

\* lines 221-250: POST /login by client c; ok says whether the password
\* given is the password of the user
Login(c, ok) ==
  LET i == find_user(users, c) IN
    /\ IF i = 0 \/ ~ok
         THEN /\ a_log' = Log("login", 401, "Invalid credentials")
              /\ UNCHANGED tokens
         ELSE /\ tokens' = [tokens EXCEPT ![c] =
                   Token(Payload_of(users[i].username,
                                    normalize_role(users[i].role),
                                    users[i].display_name,
                                    normalize_dashboard_access(
                                      users[i].dashboard_access)))]
              /\ a_log' = Log("login", 200, "")
    /\ UNCHANGED users
    /\ UNCHANGED <<fanoutVars, mergeVars, healthVars, loadVars, apiVars>>

\* lines 269-279: GET /users
ListUsers(cred) ==
  LET dep == require_admin(cred) IN
    /\ a_log' = Log("list_users", dep.status, dep.detail)
    /\ UNCHANGED <<users, tokens>>
    /\ UNCHANGED <<fanoutVars, mergeVars, healthVars, loadVars, apiVars>>

\* the bodies of PATCH /users/{username}; None is a field left out
Body(role, dashboard_access, display_name) ==
  [role |-> role, dashboard_access |-> dashboard_access,
   display_name |-> display_name]

UpdateBodies ==
  { Body("user", None, None),
    Body("Administrator", None, None),
    Body(" Super_Admin ", None, None),
    Body("super_admin", "VIEW", None),
    Body(None, "use", None),
    Body(None, None, None) }

\* lines 306-319: the record with the fields of the request
UpdatedRecord(u, req) ==
  LET with_role == IF req.role # None
                     THEN [u EXCEPT !.role = normalize_role(req.role)]
                     ELSE u
      with_access == IF req.dashboard_access # None
                       THEN [with_role EXCEPT !.dashboard_access =
                               normalize_dashboard_access(req.dashboard_access)]
                       ELSE with_role
  IN IF req.display_name # None
       THEN [with_access EXCEPT !.display_name = req.display_name]
       ELSE with_access

\* lines 283-328, after require_admin has let the request in: the response
\* and the user list it leaves
update_user(us, current_user, username, req) ==
  LET i == find_user(us, username)
      current_role == normalize_role(current_user.role)
      target_role == normalize_role(us[i].role)
  IN IF i = 0
       THEN [status |-> 404, detail |-> "User not found", users |-> us]
       ELSE IF target_role = SUPER_ADMIN_ROLE /\ current_role # SUPER_ADMIN_ROLE
         THEN [status |-> 403, detail |-> "Super Admin role cannot be modified",
               users |-> us]
         ELSE IF /\ req.role # None
                 /\ normalize_role(req.role) = SUPER_ADMIN_ROLE
                 /\ current_role # SUPER_ADMIN_ROLE
           THEN [status |-> 403,
                 detail |-> "Only Super Admin can assign Super Admin role",
                 users |-> us]
           ELSE [status |-> 200, detail |-> "",
                 users |-> [us EXCEPT ![i] = UpdatedRecord(us[i], req)]]

\* lines 282-328: PATCH /users/{username}; save_user_config writes the list
\* the handler changed in place
UpdateUser(cred, username, req) ==
  LET dep == require_admin(cred)
      out == IF dep.status # 200
               THEN [status |-> dep.status, detail |-> dep.detail,
                     users |-> users]
               ELSE update_user(users, dep.user, username, req)
  IN /\ users' = out.users
     /\ a_log' = Log("update_user", out.status, out.detail)
     /\ UNCHANGED tokens
     /\ UNCHANGED <<fanoutVars, mergeVars, healthVars, loadVars, apiVars>>

\* ------------------------------------------------------ POST /run_query
Request(cred, qid, subset) ==
  [credentials |-> cred, query_id |-> qid, endpoints |-> subset,
   access |-> LatestAccess(cred)]

\* line 351: require_dashboard_use turns the request down
RunQueryRejected(cred, qid, subset) ==
  LET dep == require_dashboard_use(cred, users) IN
    /\ r_pc = "idle"
    /\ dep.status # 200
    /\ r_req' = Request(cred, qid, subset)
    /\ r_resp' = Response(dep.status, dep.detail, EmptyDict)
    /\ r_pc' = "responded"
    /\ UNCHANGED r_invocations
    /\ UNCHANGED <<fanoutVars, mergeVars, healthVars, loadVars, authVars>>

\* lines 351-358: the query id is not in the registry
RunQueryUnknownId(cred, qid, subset) ==
  /\ r_pc = "idle"
  /\ require_dashboard_use(cred, users).status = 200
  /\ qid \notin DOMAIN Queries
  /\ r_req' = Request(cred, qid, subset)
  /\ r_resp' = Response(400, "Unknown query_id: " \o qid, EmptyDict)
  /\ r_pc' = "responded"
  /\ UNCHANGED r_invocations
  /\ UNCHANGED <<fanoutVars, mergeVars, healthVars, loadVars, authVars>>

\* lines 351-362: run_routine_query(req.query_id, endpoints_to_use=req.endpoints)
\* is called
RunQueryInvoke(cred, qid, subset) ==
  /\ r_pc = "idle"
  /\ pc = "idle"
  /\ require_dashboard_use(cred, users).status = 200
  /\ qid \in DOMAIN Queries
  /\ r_req' = Request(cred, qid, subset)
  /\ r_invocations' = <<subset>>
  /\ r_pc' = "first"
  /\ pc' = "called"
  /\ query_id' = qid
  /\ endpoints_to_use' = subset
  /\ UNCHANGED r_resp
  /\ UNCHANGED <<env, target_endpoints, idx, results, retval, raised, calls>>
  /\ UNCHANGED <<mergeVars, healthVars, loadVars, authVars>>

\* mainEngine.py lines 89-90: a registry cannot be loaded
CallRegistryError(e) ==
  /\ pc = "called"
  /\ pc' = "raised"
  /\ raised' = e
  /\ UNCHANGED <<env, query_id, endpoints_to_use, target_endpoints, idx,
                 results, retval, calls>>
  /\ UNCHANGED <<mergeVars, healthVars, serviceVars>>

\* lines 363-365: the first call raised TypeError, run_routine_query(req.query_id)
\* is called
RunQueryFallback ==
  /\ r_pc = "first"
  /\ pc = "raised"
  /\ raised = "TypeError"
  /\ r_pc' = "second"
  /\ r_invocations' = Append(r_invocations, NoList)
  /\ pc' = "called"
  /\ raised' = None
  /\ endpoints_to_use' = NoList
  /\ UNCHANGED <<r_req, r_resp>>
  /\ UNCHANGED <<env, query_id, target_endpoints, idx, results, retval, calls>>
  /\ UNCHANGED <<mergeVars, healthVars, loadVars, authVars>>

\* an exception no handler catches leaves run_query: the server answers 500
RunQueryUnhandled ==
  /\ r_pc \in {"first", "second"}
  /\ pc = "raised"
  /\ r_pc = "first" => raised # "TypeError"
  /\ r_resp' = Response(500, "Internal Server Error", EmptyDict)
  /\ r_pc' = "responded"
  /\ UNCHANGED <<r_req, r_invocations>>
  /\ UNCHANGED <<fanoutVars, mergeVars, healthVars, loadVars, authVars>>

\* lines 367-370: a map with a key "error" is answered with 500 and the
\* value of that key as detail, any other map is the body
RunQueryRespond ==
  /\ r_pc \in {"first", "second"}
  /\ pc = "returned"
  /\ r_resp' = IF "error" \in DOMAIN retval
                 THEN Response(500, "results[error]",
                               [detail |-> retval["error"]])
                 ELSE Response(200, "", retval)
  /\ r_pc' = "responded"
  /\ UNCHANGED <<r_req, r_invocations>>
  /\ UNCHANGED <<fanoutVars, mergeVars, healthVars, loadVars, authVars>>

\* ------------------------------------- the user service: who may do what
\* the /run_query requests of the user service
AuthQueryIds == {"by_gender", "does_not_exist"}

AuthNext ==
  \/ r_pc = "idle" /\ \E c \in Clients, ok \in BOOLEAN : Login(c, ok)
  \/ r_pc = "idle" /\ \E cred \in Credentials : ListUsers(cred)
  \/ r_pc = "idle" /\ \E cred \in Credentials, c \in Clients,
                         req \in UpdateBodies :
                        UpdateUser(cred, c, req)
  \/ r_pc = "idle" /\ \E cred \in Credentials, qid \in AuthQueryIds :
                        RunQueryRejected(cred, qid, NoList)
  \/ r_pc = "idle" /\ \E cred \in Credentials, qid \in AuthQueryIds :
                        RunQueryUnknownId(cred, qid, NoList)
  \/ r_pc = "idle" /\ \E cred \in Credentials, qid \in AuthQueryIds :
                        RunQueryInvoke(cred, qid, NoList)

AuthInit ==
  /\ env = [n \in EnvNames |-> "s3cret"]
  /\ FanoutIdle
  /\ MergeIdle
  /\ HealthIdle
  /\ ServiceIdle

AuthSpec == AuthInit /\ [][AuthNext]_vars

\* --------------------------------------- /run_query from request to response
\* the endpoint lists of the requests: none, registered endpoints, a list
\* with an id that is in no registry, a list with the endpoint F
ApiSubsets ==
  { NoList, List(<<"A", "B">>), List(<<"A", "error">>), List(<<"A", "F">>) }

ApiNext ==
  \/ r_pc = "idle" /\ \E c \in Clients, ok \in BOOLEAN : Login(c, ok)
  \/ r_pc = "idle" /\ \E cred \in Credentials, qid \in QueryIds,
                         subset \in ApiSubsets :
                        RunQueryRejected(cred, qid, subset)
  \/ r_pc = "idle" /\ \E cred \in Credentials, qid \in QueryIds,
                         subset \in ApiSubsets :
                        RunQueryUnknownId(cred, qid, subset)
  \/ r_pc = "idle" /\ \E cred \in Credentials, qid \in QueryIds,
                         subset \in ApiSubsets :
                        RunQueryInvoke(cred, qid, subset)
  \/ pc = "called" /\ CallQueryFileError(query_id, endpoints_to_use)
  \/ pc = "called" /\ \E e \in ConfigErrors : CallRegistryError(e)
  \/ pc = "called" /\ CallStart(query_id, endpoints_to_use)
  \/ StepUnknownEndpoint
  \/ StepMissingCredentials
  \/ StepEnvTypeError
  \/ pc = "loop" /\ \E net \in FairOutcomes : StepExecute(net)
  \/ Return
  \/ RunQueryFallback
  \/ RunQueryUnhandled
  \/ RunQueryRespond

ApiSpec == Init /\ [][ApiNext]_vars

\* ================================================================ claims
\* run_routine_query has returned the map of a registered query
ReturnedMap == pc = "returned" /\ query_id \in DOMAIN Queries

IsBasic(org) == Get(org, "auth_method", "none") = "basic"

\* both credentials of a basic-auth endpoint are resolved to a value
HasCreds(org) == Truthy(ResolveUsername(org)) /\ Truthy(ResolvePassword(org))

\* the endpoint has a descriptor and, if it asks for basic auth, credentials
CallableEndpoint(e) ==
  e \in DOMAIN Endpoints /\ (IsBasic(Endpoints[e]) => HasCreds(Endpoints[e]))

\* position i is the last place of its endpoint in the target list
IsLastPosition(i) ==
  \A j \in DOMAIN target_endpoints :
    j > i => target_endpoints[j] # target_endpoints[i]

\* the executor was called in iteration i
CalledAt(i) == \E k \in DOMAIN calls : calls[k].at = i

IsErrorEntry(v) == "error" \in DOMAIN v

IsMissingCredentialsEntry(v) ==
  /\ IsErrorEntry(v)
  /\ v.error[1] = "Missing credentials for endpoint"

\* C1: the map returned for a registered query has exactly the target
\* endpoints as its keys: every target has an entry, no other key appears.
C1_KeySetIsTargetSet ==
  ReturnedMap => DOMAIN retval = Range(target_endpoints)

C1_Witness ==
  /\ ReturnedMap
  /\ Len(target_endpoints) = 3
  /\ "Z" \in Range(target_endpoints)
  /\ \E e \in Range(target_endpoints) :
       e \in DOMAIN Endpoints /\ ~CallableEndpoint(e)
  /\ \E k \in DOMAIN calls : calls[k].net.raises

\* C2: a failing target only makes its own entry an error entry: every
\* callable target is called, a target whose (last) call succeeded has its
\* payload in the returned map, and an error entry belongs to a target that
\* itself failed, wherever the failing targets are in the list.
TargetFailed(e) ==
  \/ ~CallableEndpoint(e)
  \/ \E k \in DOMAIN calls : calls[k].endpoint = e /\ calls[k].net.raises

C2_FaultIsolation ==
  ReturnedMap =>
    /\ \A i \in DOMAIN target_endpoints :
         CallableEndpoint(target_endpoints[i]) => CalledAt(i)
    /\ \A k \in DOMAIN calls :
         (~calls[k].net.raises /\ IsLastPosition(calls[k].at)) =>
           /\ calls[k].endpoint \in DOMAIN retval
           /\ retval[calls[k].endpoint] = calls[k].net.value
    /\ \A e \in DOMAIN retval : IsErrorEntry(retval[e]) => TargetFailed(e)

C2_Witness ==
  /\ ReturnedMap
  /\ Len(calls) = 3
  /\ ~calls[1].net.raises /\ calls[2].net.raises /\ ~calls[3].net.raises
  /\ Cardinality({calls[k].endpoint : k \in 1..3}) = 3
  /\ IsErrorEntry(retval[calls[2].endpoint])
  /\ ~IsErrorEntry(retval[calls[1].endpoint])
  /\ ~IsErrorEntry(retval[calls[3].endpoint])

\* C3: with a query id that is not in the registry run_routine_query fails
\* with UnknownQueryError and returns no map.
C3_UnknownQueryRaises ==
  (pc \in {"returned", "raised"} /\ query_id \notin DOMAIN Queries) =>
    (pc = "raised" /\ raised = "UnknownQueryError")

\* C4: the targets are the caller's subset when it is given and non-empty,
\* else the allowed_endpoints of the query, else none.
C4_TargetResolution ==
  (pc \in {"loop", "returned"} /\ query_id \in DOMAIN Queries) =>
    target_endpoints =
      IF ~endpoints_to_use.is_none /\ Len(endpoints_to_use.list) > 0
        THEN endpoints_to_use.list
        ELSE IF "allowed_endpoints" \in DOMAIN Queries[query_id]
               THEN Queries[query_id].allowed_endpoints
               ELSE <<>>

C4_Witness ==
  /\ ReturnedMap
  /\ ~endpoints_to_use.is_none
  /\ endpoints_to_use.list = <<>>
  /\ target_endpoints = <<"A", "Z", "B">>

\* C5: no exception leaves execute_sparql: a failure of the request or of
\* the conversion comes back as {error: reason}, an answer comes back as it
\* is, and the loop goes on after the call.
C5_ExecutorNeverRaises ==
  /\ \A k \in DOMAIN calls :
       /\ ~calls[k].out.raised
       /\ calls[k].net.raises =>
            calls[k].out.value = [error |-> <<calls[k].net.exc>>]
       /\ ~calls[k].net.raises => calls[k].out.value = calls[k].net.value
       /\ calls[k].at < idx
  /\ pc = "raised" => calls = <<>>

C5_Witness ==
  /\ ReturnedMap
  /\ Len(calls) >= 2
  /\ calls[1].net.raises
  /\ calls[1].net.exc = "JSONDecodeError: expecting value"
  /\ calls[2].at > calls[1].at

\* C6: a target without descriptor gets exactly {error: "Unknown endpoint"},
\* is never passed to the executor, and the targets after it are processed.
C6_UnknownEndpoint ==
  pc \in {"loop", "returned"} =>
    \A i \in DOMAIN target_endpoints :
      LET t == target_endpoints[i] IN
        t \notin DOMAIN Endpoints =>
          /\ i < idx => (t \in DOMAIN results /\ results[t] = UnknownEndpointError)
          /\ \A k \in DOMAIN calls : calls[k].endpoint # t
          /\ pc = "returned" =>
               /\ idx = Len(target_endpoints) + 1
               /\ t \in DOMAIN retval
               /\ retval[t] = UnknownEndpointError

C6_Witness ==
  /\ ReturnedMap
  /\ Len(target_endpoints) >= 2
  /\ target_endpoints[1] = "Z"
  /\ \E k \in DOMAIN calls : calls[k].at = 2

\* C7: a basic-auth endpoint is called only with a username and a password
\* that were both resolved; without them the entry is the missing-credentials
\* error of that endpoint, no call is made, and the later targets are
\* processed; any other endpoint is always called, without credentials.
C7_Credentials ==
  /\ \A k \in DOMAIN calls :
       LET c == calls[k]
           org == Endpoints[c.endpoint]
       IN IF IsBasic(org)
            THEN /\ Truthy(c.username) /\ Truthy(c.password)
                 /\ c.username = ResolveUsername(org)
                 /\ c.password = ResolvePassword(org)
            ELSE c.username = None /\ c.password = None
  /\ pc \in {"loop", "returned"} =>
       \A i \in DOMAIN target_endpoints :
         LET t == target_endpoints[i] IN
           (i < idx /\ t \in DOMAIN Endpoints) =>
             IF IsBasic(Endpoints[t]) /\ ~HasCreds(Endpoints[t])
               THEN /\ ~CalledAt(i)
                    /\ t \in DOMAIN results
                    /\ IsMissingCredentialsEntry(results[t])
                    /\ results[t].error[2] = t
               ELSE CalledAt(i)
  /\ ReturnedMap => idx = Len(target_endpoints) + 1

C7_Witness ==
  /\ ReturnedMap
  /\ target_endpoints = <<"D", "E", "A">>
  /\ IsMissingCredentialsEntry(retval["D"])
  /\ Len(calls) = 2
  /\ calls[1].username = "erin" /\ calls[1].password = "s3cret"
  /\ calls[2].username = None

\* C8: a missing-credentials message names every reference that could not
\* be resolved: the username reference (environment variable or static
\* username) and the password reference (environment variable, or the
\* password_env setting when none is configured).
UsernameReference(org) ==
  IF "username_env" \in DOMAIN org
    THEN Quote(org.username_env)
    ELSE "'username' in endpoints_config.json"

PasswordReference(org) ==
  IF "password_env" \in DOMAIN org
    THEN Quote(org.password_env)
    ELSE "'password_env' in endpoints_config.json"

UnresolvedReferences(org) ==
  (IF Truthy(ResolveUsername(org)) THEN {} ELSE {UsernameReference(org)})
  \cup
  (IF Truthy(ResolvePassword(org)) THEN {} ELSE {PasswordReference(org)})

C8_MessageNamesMissing ==
  \A e \in DOMAIN results :
    IsMissingCredentialsEntry(results[e]) =>
      UnresolvedReferences(Endpoints[e]) \subseteq Range(results[e].error)

\* C9: the entry of an endpoint is the value the executor returned in the
\* last call made for it, unchanged by the processing of the other targets.
C9_StoredVerbatim ==
  pc \in {"loop", "returned"} =>
    \A k \in DOMAIN calls :
      (\A k2 \in DOMAIN calls : k2 > k => calls[k2].endpoint # calls[k].endpoint)
        => /\ calls[k].endpoint \in DOMAIN results
           /\ results[calls[k].endpoint] = calls[k].out.value
           /\ pc = "returned" =>
                /\ calls[k].endpoint \in DOMAIN retval
                /\ retval[calls[k].endpoint] = calls[k].out.value

C9_Witness ==
  /\ ReturnedMap
  /\ Len(calls) = 3
  /\ calls[1].endpoint = calls[3].endpoint
  /\ calls[2].endpoint # calls[1].endpoint
  /\ calls[1].out # calls[3].out
  /\ calls[2].out # calls[3].out

\* the binding rows of an entry that is a well-formed success: a mapping
\* without "error" whose results.bindings is a list
SuccessRows(result) ==
  IF result.py = "dict" /\ "error" \notin DOMAIN result.map
    THEN RowsOf(result)
    ELSE <<>>

\* the row carries the group variable and a count that parses as an integer
HasValidCount(row, gv) ==
  /\ row.py = "dict"
  /\ gv \in DOMAIN row.map /\ "count" \in DOMAIN row.map
  /\ row.map[gv].py = "dict" /\ "value" \in DOMAIN row.map[gv].map
  /\ row.map["count"].py = "dict" /\ "value" \in DOMAIN row.map["count"].map
  /\ PyIntOf(row.map["count"].map["value"]).exc = None

\* the places <<entry, row>> of the map whose row counts for the key
Contributions(items, gv, key) ==
  { p \in UNION { { <<i, j>> : j \in DOMAIN SuccessRows(items[i].value) }
                  : i \in DOMAIN items } :
      LET row == SuccessRows(items[p[1]].value)[p[2]] IN
        HasValidCount(row, gv) /\ row.map[gv].map["value"] = key }

RECURSIVE SumOfCounts(_, _)
SumOfCounts(items, places) ==
  IF places = {} THEN 0
  ELSE LET p == CHOOSE q \in places : TRUE
           row == SuccessRows(items[p[1]].value)[p[2]]
       IN PyIntOf(row.map["count"].map["value"]).n
          + SumOfCounts(items, places \ {p})

\* C10: every row of the merged table has as its total the sum of the counts
\* of all rows with that group key and a valid count, over all entries that
\* are well-formed successes.
C10_TotalIsSum ==
  m_pc = "returned" =>
    \A i \in DOMAIN m_out.df.rows :
      LET r == m_out.df.rows[i] IN
        r.total_count =
          SumOfCounts(results_dict,
                      Contributions(results_dict, group_var, r.country))

\* A = [{NL,3}] and B = [{NL,2},{BE,1}] merge to {NL: 5, BE: 1}
C10_Witness ==
  /\ m_pc = "returned"
  /\ group_var = "country"
  /\ results_dict = Items(<<Success(<<RowNL3>>), Success(<<RowNL2, RowBE1>>)>>)
  /\ m_out.df.rows = << [country |-> PyStr("NL"), total_count |-> 5],
                        [country |-> PyStr("BE"), total_count |-> 1] >>

\* the iteration orders of the same entries: every reordering of the map
Reorderings(items) ==
  { [i \in DOMAIN items |-> items[f[i]]] :
      f \in { g \in [DOMAIN items -> DOMAIN items] :
                \A i, j \in DOMAIN items : g[i] = g[j] => i = j } }

\* C11 as stated: the merge of the same entries in any other iteration order
\* returns the identical table, rows in the same order.
C11_IdenticalTable ==
  m_pc = "returned" =>
    \A p \in Reorderings(results_dict) :
      LET o == merge_count_results(p, group_var) IN
        o.exc = None /\ o.df = m_out.df

\* C11, amended: the merge of the same entries in any other iteration order
\* returns a table with the same columns and the same rows, each key with
\* the same total; only the order of the rows, which is the order of first
\* appearance of the keys, may differ.
C11_SameRowsAnyOrder ==
  m_pc = "returned" =>
    \A p \in Reorderings(results_dict) :
      LET o == merge_count_results(p, group_var) IN
        /\ o.exc = None
        /\ o.df.columns = m_out.df.columns
        /\ Len(o.df.rows) = Len(m_out.df.rows)
        /\ Range(o.df.rows) = Range(m_out.df.rows)

\* A = [{BE,1}] and B = [{NL,3},{NL,2}] merge to the rows BE, NL; in the
\* order B, A the rows are NL, BE
C11_Witness ==
  /\ m_pc = "returned"
  /\ group_var = "country"
  /\ results_dict = Items(<<Success(<<RowBE1>>), Success(<<RowNL3, RowNL2>>)>>)
  /\ m_out.df.rows = << [country |-> PyStr("BE"), total_count |-> 1],
                        [country |-> PyStr("NL"), total_count |-> 5] >>

WrongShape(result) ==
  /\ result.py = "dict"
  /\ "error" \notin DOMAIN result.map
  /\ "results" \in DOMAIN result.map
  /\ \/ result.map["results"].py # "dict"
     \/ /\ "bindings" \in DOMAIN result.map["results"].map
        /\ result.map["results"].map["bindings"].py # "list"

\* the map with every row dropped that has no valid count for the key
ValidRowsOnly(items, gv) ==
  [i \in DOMAIN items |->
     IF items[i].value = Success(RowsOf(items[i].value))
       THEN [key |-> items[i].key,
             value |-> Success(SelectSeq(RowsOf(items[i].value),
                                         LAMBDA row : HasValidCount(row, gv)))]
       ELSE items[i]]

\* C13: a binding row without the group variable, without count, with a
\* group or count cell without a value, or with a count that is no integer
\* is skipped: on a map whose entries are answers with rows, error
\* descriptors or values the merge skips, the call raises nothing and
\* returns the table of the rows with a valid count alone, where a count of
\* 0 counts.
C13_MalformedRowsSkipped ==
  (m_pc # "idle" /\ \A i \in DOMAIN results_dict :
                      ~WrongShape(results_dict[i].value)) =>
    /\ m_pc = "returned"
    /\ m_out.df.rows =
         merge_count_results(ValidRowsOnly(results_dict, group_var),
                             group_var).df.rows

\* every cell of every binding row of the map has a value
CellsHaveValues(items) ==
  \A i \in DOMAIN items :
    \A j \in DOMAIN RowsOf(items[i].value) :
      LET row == RowsOf(items[i].value)[j] IN
        \A v \in DOMAIN row.map : "value" \in DOMAIN row.map[v].map

\* the entries of the map that are answers with a list of rows
SuccessesOnly(items) ==
  SelectSeq(items, LAMBDA it : it.value = Success(RowsOf(it.value)))

\* C14: an entry that is an error descriptor or no well-formed result (no
\* mapping, or a mapping whose results or bindings are missing or of the
\* wrong shape) contributes nothing and never makes the merge fail: on a
\* map whose rows all have values in their cells, the call raises nothing
\* and returns the table of the well-formed answers alone.
C14_BadEntriesContributeNothing ==
  (m_pc # "idle" /\ CellsHaveValues(results_dict)) =>
    /\ m_pc = "returned"
    /\ m_out.df.rows =
         merge_count_results(SuccessesOnly(results_dict), group_var).df.rows

\* the group keys some row of some well-formed answer carries
KeysOf(items, gv) ==
  UNION { { SuccessRows(items[i].value)[j].map[gv].map["value"] :
              j \in { k \in DOMAIN SuccessRows(items[i].value) :
                        HasValidCount(SuccessRows(items[i].value)[k], gv) } }
          : i \in DOMAIN items }

\* C15: the merged table has exactly one row for every group key that got
\* at least one contribution with a valid count, the keys told apart as
\* exact strings, and no row for any other key.
C15_OneRowPerKey ==
  m_pc = "returned" =>
    LET rows == m_out.df.rows IN
      /\ \A i, j \in DOMAIN rows : rows[i].country = rows[j].country => i = j
      /\ { rows[i].country : i \in DOMAIN rows } =
           KeysOf(results_dict, group_var)

\* NL and nl are two rows, the key nl has the total 0, and BE, which only a
\* row with the count 2.5 carries, has no row
C15_Witness ==
  /\ m_pc = "returned"
  /\ group_var = "country"
  /\ Len(results_dict) = 2
  /\ PyDict([country |-> Cell("BE"), count |-> Cell("2.5")])
       \in Range(RowsOf(results_dict[2].value))
  /\ Range(m_out.df.rows) = { [country |-> PyStr("NL"), total_count |-> 3],
                              [country |-> PyStr("nl"), total_count |-> 0] }

\* C16: whatever group variable the caller passes, the columns of the table
\* returned are the group variable and total_count, in this order, also
\* when the table has no row.
C16_KeyColumnIsGroupVar ==
  m_pc = "returned" => m_out.df.columns = <<group_var, "total_count">>

\* the status the taxonomy gives the outcome of a probe: an exception, or a
\* response with a status code after a latency in microseconds
Taxonomy(o) ==
  IF o.raises THEN "offline"
  ELSE IF o.status_code \in 200..299
    THEN IF o.latency <= 2 * 1000000 THEN "online" ELSE "degraded"
  ELSE IF o.status_code \in {401, 403} THEN "online"
  ELSE IF o.status_code >= 500 THEN "error"
  ELSE "degraded"

\* C17: the status of every endpoint probed is the one of the taxonomy: no
\* HTTP response gives offline; a status in [200,300) gives online up to a
\* latency of 2.0 s, 2.0 s included, and degraded above; 401 and 403 give
\* online whatever the latency; a status of 500 or more gives error; any
\* other status gives degraded; the status is never unknown.
C17_StatusTaxonomy ==
  \A i \in DOMAIN probes :
    LET p == probes[i] IN
      p.name \in DOMAIN status_map =>
        /\ status_map[p.name].status = Taxonomy(p.outcome)
        /\ status_map[p.name].status # "unknown"

\* 200 after exactly 2.0 s is online, 200 after more is degraded, 503 is
\* error
C17_Witness ==
  /\ h_pc = "returned"
  /\ probes[1].outcome.status_code = 200
  /\ probes[1].outcome.latency = 2000000
  /\ status_map["A"].status = "online"
  /\ probes[2].outcome.status_code = 200
  /\ probes[2].outcome.latency = 2000001
  /\ status_map["B"].status = "degraded"
  /\ probes[3].outcome.status_code = 503
  /\ status_map["C"].status = "error"

\* C18: the health checks are independent per endpoint: an exception of a
\* probe leaves no check and no pass, it makes the status of that endpoint
\* offline; the pass returns one record for every endpoint of the registry
\* and no other, after one probe each, and the record of an endpoint is
\* that of its own probe's outcome.
C18_IndependentChecks ==
  /\ h_pc = "raised" => probes = <<>>
  /\ h_pc = "returned" =>
       /\ DOMAIN status_map = DOMAIN Organizations
       /\ Len(probes) = Len(HealthOrder)
  /\ \A i \in DOMAIN probes :
       LET p == probes[i]
           o == p.outcome
       IN /\ p.name = HealthOrder[i]
          /\ p.name \in DOMAIN status_map
          /\ status_map[p.name].status = Taxonomy(o)
          /\ o.raises =>
               /\ status_map[p.name].status = "offline"
               /\ status_map[p.name].http_status = <<>>
               /\ status_map[p.name].error # None
          /\ ~o.raises =>
               /\ status_map[p.name].http_status = <<o.status_code>>
               /\ status_map[p.name].error = None

\* the probe of B raised ConnectError: B is offline, A before it is online
\* and C after it has the error of its 500
C18_Witness ==
  /\ h_pc = "returned"
  /\ probes[2].outcome.raises
  /\ probes[2].outcome.exc.cls = "ConnectError"
  /\ status_map["B"].status = "offline"
  /\ status_map["B"].error = "ConnectError('All connection attempts failed')"
  /\ status_map["A"].status = "online"
  /\ probes[3].outcome.status_code = 500
  /\ status_map["C"].status = "error"

\* C19: with auth_method basic and a username or a password that cannot be
\* resolved, the probe is sent all the same, without credentials, and the
\* endpoint gets the status of the probe's outcome; with both resolved the
\* probe carries them; a pass that returns has probed every endpoint.
C19_ProbeWithoutCredentials ==
  /\ \A i \in DOMAIN probes :
       LET p == probes[i]
           cfg == Organizations[p.name]
       IN Get(cfg, "auth_method", "none") = "basic" =>
            IF Truthy(ResolveUsername(cfg)) /\ Truthy(ResolvePassword(cfg))
              THEN /\ ~p.request.auth.is_none
                   /\ p.request.auth.username = ResolveUsername(cfg)
                   /\ p.request.auth.password = ResolvePassword(cfg)
              ELSE /\ p.request.auth.is_none
                   /\ p.name \in DOMAIN status_map
                   /\ status_map[p.name].status = Taxonomy(p.outcome)
  /\ h_pc = "returned" =>
       \A name \in DOMAIN Organizations :
         \E i \in DOMAIN probes : probes[i].name = name

\* SPARQL_PASS is not set: B is probed without credentials and its 200 is
\* online; C, with a username and no password, is probed without and its
\* 401 is online
C19_Witness ==
  /\ h_pc = "returned"
  /\ env["SPARQL_USER"] = "s3cret"
  /\ env["SPARQL_PASS"] = None
  /\ probes[2].request.auth.is_none
  /\ probes[2].outcome.status_code = 200
  /\ probes[2].outcome.latency = 150000
  /\ status_map["B"].status = "online"
  /\ probes[3].request.auth.is_none
  /\ probes[3].outcome.status_code = 401
  /\ status_map["C"].status = "online"

\* C20: the health check is advisory and does not block the queries: no
\* call of run_routine_query is held waiting for a health-check pass to
\* complete before it queries its target endpoints, and no failure of the
\* health check is the failure of the call.
C20_HealthNeverBlocksFanout ==
  /\ ~(pc = "loading" /\ h_pc = "checking")
  /\ pc = "raised" => raised # h_raised

\* C21: loading the endpoint registry performs no network activity: while
\* and after load_endpoints runs no endpoint has been contacted.
C21_NoNetworkActivity == l_pc # "idle" => probes = <<>>

\* C26: load_endpoints returns every configured endpoint, each with a status:
\* the live status when the health-check pass produced one for it, otherwise
\* the status of the configuration, otherwise unknown, every other field as
\* configured; an exception of the health check never leaves load_endpoints.
C26_StatusOverlay ==
  /\ l_pc = "returned" =>
       /\ DOMAIN endpoints = DOMAIN Endpoints
       /\ \A name \in DOMAIN Endpoints :
            /\ DOMAIN endpoints[name] = DOMAIN Endpoints[name] \cup {"status"}
            /\ \A k \in DOMAIN Endpoints[name] \ {"status"} :
                 endpoints[name][k] = Endpoints[name][k]
            /\ endpoints[name].status =
                 IF h_pc = "returned" /\ name \in DOMAIN status_map
                   THEN status_map[name].status
                   ELSE IF "status" \in DOMAIN Endpoints[name]
                          THEN Endpoints[name].status
                          ELSE "unknown"
  /\ h_pc = "raised" => l_pc \in {"loading", "returned"}

C26_Witness ==
  /\ l_pc = "returned"
  /\ h_pc = "raised"
  /\ endpoints["A"].status = "offline"
  /\ endpoints["D"].status = "degraded"
  /\ endpoints["E"].status = "unknown"

\* the pass succeeded: a live status replaces the status of the file
C26_LiveWitness ==
  /\ l_pc = "returned"
  /\ h_pc = "returned"
  /\ endpoints["A"].status = "online"
  /\ endpoints["D"].status = "degraded"

\* C22: a registered query whose source file cannot be read is fatal for
\* that query id: run_routine_query lets the file error reach its caller,
\* returns no map and has called the executor for no endpoint.
C22_UnreadableQueryFileIsFatal ==
  (/\ pc \in {"loop", "returned", "raised"}
   /\ query_id \in DOMAIN Queries
   /\ Queries[query_id].query_file \notin DOMAIN QueryFiles) =>
    /\ pc = "raised"
    /\ raised = "FileNotFoundError"
    /\ retval = EmptyDict
    /\ results = EmptyDict
    /\ calls = <<>>

C22_Witness ==
  /\ pc = "raised"
  /\ query_id = "by_type"
  /\ endpoints_to_use = List(<<"A", "B">>)

\* C23: there is no retry: within one run_routine_query call the executor is
\* called at most once per endpoint identifier, whatever the target list.
C23_AtMostOncePerEndpoint ==
  \A i, j \in DOMAIN calls :
    calls[i].endpoint = calls[j].endpoint => i = j

\* the positions of the target list already processed that name endpoint e
PositionsDone(e) ==
  { i \in DOMAIN target_endpoints : i < idx /\ target_endpoints[i] = e }

\* C23 (amended): the executor is called at most once per position of the
\* target list, in the order of the list: an endpoint is called once for
\* each processed position that names it and is callable, never more.  A
\* failed call is recorded at once as the error entry of its endpoint and
\* stays unless a later position names the same endpoint again.
C23_NoRetry ==
  pc \in {"loop", "returned"} =>
    /\ \A i, j \in DOMAIN calls : i < j => calls[i].at < calls[j].at
    /\ \A k \in DOMAIN calls :
         calls[k].endpoint = target_endpoints[calls[k].at]
    /\ \A e \in Range(target_endpoints) :
         Cardinality({ k \in DOMAIN calls : calls[k].endpoint = e }) =
           IF CallableEndpoint(e) THEN Cardinality(PositionsDone(e)) ELSE 0
    /\ \A k \in DOMAIN calls :
         (calls[k].net.raises /\ IsLastPosition(calls[k].at)) =>
           /\ calls[k].endpoint \in DOMAIN results
           /\ results[calls[k].endpoint] = [error |-> <<calls[k].net.exc>>]

C23_Witness ==
  /\ pc = "returned"
  /\ Len(calls) = 3
  /\ calls[1].endpoint = calls[3].endpoint
  /\ calls[2].endpoint # calls[1].endpoint
  /\ calls[2].net.raises
  /\ retval[calls[2].endpoint] = [error |-> <<calls[2].net.exc>>]

\* the targets before position i, as a set
Before(i) == { target_endpoints[j] : j \in 1..(i - 1) }

\* C24: once a fan-out has begun it runs to completion: the targets are
\* processed one at a time in the order of the target list (the map holds
\* the targets before the current position and no other, the executor calls
\* were made at increasing positions, each finished before the next), and
\* the call ends with an outcome recorded for every target, whatever the
\* outcomes of the earlier targets.
C24_RunsToCompletion ==
  /\ [](pc = "loop" =>
          /\ idx \in 1..(Len(target_endpoints) + 1)
          /\ DOMAIN results = Before(idx)
          /\ \A k \in DOMAIN calls :
               /\ calls[k].at < idx
               /\ calls[k].endpoint = target_endpoints[calls[k].at]
               /\ \A j \in DOMAIN calls : j < k => calls[j].at < calls[k].at)
  /\ (pc = "loop") ~>
       (/\ pc = "returned"
        /\ idx = Len(target_endpoints) + 1
        /\ DOMAIN retval = Range(target_endpoints))

C24_Witness ==
  /\ pc = "returned"
  /\ Len(target_endpoints) = 3
  /\ DOMAIN retval = Range(target_endpoints)
  /\ Len(calls) = 1
  /\ calls[1].at = 3
  /\ IsErrorEntry(retval[target_endpoints[1]])
  /\ IsErrorEntry(retval[target_endpoints[2]])
  /\ target_endpoints[1] \notin DOMAIN Endpoints

\* C27: /run_query calls run_routine_query only for a caller whose token
\* decodes and whose record in the user list, as it is when the request
\* arrives, has dashboard_access 'use'.  Any other request (no token, a
\* token that does not decode, a user no longer in the list, a permission
\* that is not 'use' any more) is answered 401 or 403 and run_routine_query
\* has not been called.
C27_OnlyLatestUse ==
  LET permitted == /\ r_req.credentials.kind = "jwt"
                   /\ r_req.access = "use"
  IN /\ r_invocations # <<>> => permitted
     /\ pc # "idle" => permitted
     /\ (r_pc # "idle" /\ ~permitted) =>
          /\ r_pc = "responded"
          /\ r_resp.status \in {401, 403}
          /\ r_invocations = <<>>

C27_Witness ==
  /\ r_pc = "responded"
  /\ r_req.credentials.kind = "jwt"
  /\ r_req.credentials.payload.username = "alice"
  /\ r_req.credentials.payload.dashboard_access = "use"
  /\ r_req.access = "view"
  /\ r_resp.status = 403
  /\ r_invocations = <<>>
  /\ pc = "idle"

\* the same for the user who is no longer in the list
C27_RemovedUserWitness ==
  /\ r_pc = "responded"
  /\ r_req.credentials.kind = "jwt"
  /\ r_req.credentials.payload.username = "zed"
  /\ r_resp.status = 401
  /\ r_invocations = <<>>

\* C28: an update_user call for a user of the list, made by a user whose
\* role is not Super_Admin, changes neither the set of users that hold the Super_Admin role nor any
\* field of the record of a Super_Admin; it is answered 403 when the target
\* is a Super_Admin or the role asked for normalizes to Super_Admin, and a
\* call answered 403 leaves the user list as it was.
C28_SuperAdminImmutable ==
  [][ \A cred \in Credentials, c \in Clients, req \in UpdateBodies :
        (/\ UpdateUser(cred, c, req)
         /\ find_user(users, c) # 0
         /\ LatestRole(cred) \in {ADMIN_ROLE, USER_ROLE}) =>
          /\ SuperAdmins(users') = SuperAdmins(users)
          /\ \A i \in DOMAIN users :
               normalize_role(users[i].role) = SUPER_ADMIN_ROLE =>
                 users'[i] = users[i]
          /\ (\/ c \in SuperAdmins(users)
              \/ req.role # None
                   /\ normalize_role(req.role) = SUPER_ADMIN_ROLE) =>
               a_log'.status = 403
          /\ a_log'.status = 403 => users' = users ]_vars

\* C29: list_users and update_user enforce the role the user list gives
\* the caller when the request arrives: a request of a caller whose role is
\* user is answered 403, whatever role the token it carries was issued with.
C29_LatestRoleEnforced ==
  [][ \A cred \in Credentials :
        (/\ \/ ListUsers(cred)
            \/ \E c \in Clients, req \in UpdateBodies : UpdateUser(cred, c, req)
         /\ LatestRole(cred) = USER_ROLE) =>
          a_log'.status = 403 ]_vars

\* C25: when run_routine_query has returned its map to /run_query, with
\* targets that failed and targets that succeeded alike, the response is
\* HTTP 200 and its body is that map, complete, for every list of endpoint
\* identifiers of the request.
C25_MixedOutcomeIsSuccess ==
  (r_pc = "responded" /\ r_invocations # <<>> /\ pc = "returned") =>
    /\ r_resp.status = 200
    /\ r_resp.body = retval
    /\ DOMAIN r_resp.body = Range(target_endpoints)

\* C30: /run_query calls run_routine_query once: when the request names a
\* non-empty endpoint list there is one call, with that list, and the keys of
\* the map in the response are the endpoints of that list, never the
\* allowed_endpoints of the query; no error of the first call leads to a
\* second call with other targets.
C30_SingleInvocation ==
  (r_invocations # <<>> /\ ~r_req.endpoints.is_none
     /\ r_req.endpoints.list # <<>>) =>
    /\ r_invocations = <<r_req.endpoints>>
    /\ (r_pc = "responded" /\ r_resp.status = 200) =>
         DOMAIN r_resp.body = Range(r_req.endpoints.list)

====
